---- MODULE Spec2Model ----
(***************************************************************************)
(* A model of docker.js: the memoized engine connection (getConnection),   *)
(* the request gateway (makeRequest), the image-name parser                *)
(* (parseImageName), the image resolver (getImage), the export pipeline    *)
(* (exportImage) and the path discovery (getPkgPathList, getDirs).         *)
(*                                                                         *)
(* Every call of an exported async function is a "call" c \in Calls.  A    *)
(* call runs from one await to the next in one step; the awaits are the    *)
(* only points where other calls interleave (one JavaScript thread).       *)
(* Strings that the code takes apart are sequences of one-character        *)
(* strings, so that split/replace/includes are computed as JavaScript      *)
(* computes them.                                                          *)
(***************************************************************************)
EXTENDS Integers, Sequences, FiniteSets, TLC

\* ------------------------------------------------------------------ bounds

\* Number of calls of exported functions in one process lifetime.
NumCalls == 2

\* Most pieces (a character, or the digest mark) of a reference string.
MaxPieces == 4

\* Most layer entries in manifest.json, over all its descriptors.
MaxLayers == 2

\* Most descriptors in manifest.json.
MaxDescriptors == 2

Calls == 1..NumCalls

\* ----------------------------------------------------------------- strings

\* String.prototype.startsWith(sub, i - 1), positions counted from 1.
MatchAt(s, sub, i) ==
    /\ i >= 1
    /\ i + Len(sub) - 1 <= Len(s)
    /\ \A k \in 1..Len(sub) : s[i + k - 1] = sub[k]

\* String.prototype.indexOf(sub), counted from 1; 0 when sub does not occur.
IndexOf(s, sub) ==
    LET hits == {i \in 1..(Len(s) + 1) : MatchAt(s, sub, i)}
    IN IF hits = {} THEN 0 ELSE CHOOSE i \in hits : \A j \in hits : i <= j

\* String.prototype.lastIndexOf(sub), counted from 1; 0 when sub does not occur.
LastIndexOf(s, sub) ==
    LET hits == {i \in 1..(Len(s) + 1) : MatchAt(s, sub, i)}
    IN IF hits = {} THEN 0 ELSE CHOOSE i \in hits : \A j \in hits : i >= j

\* String.prototype.includes(sub).
Includes(s, sub) == IndexOf(s, sub) # 0

\* s.split(sep)[0]: the part before the first separator (all of s without one).
SplitFirst(s, sep) ==
    IF IndexOf(s, sep) = 0 THEN s ELSE SubSeq(s, 1, IndexOf(s, sep) - 1)

\* tmpA[tmpA.length - 1] of s.split(sep): the part after the last separator.
SplitLast(s, sep) ==
    IF LastIndexOf(s, sep) = 0 THEN s
    ELSE SubSeq(s, LastIndexOf(s, sep) + Len(sep), Len(s))

\* s.replace(pat, ""), pat a string: only the FIRST occurrence is removed.
RemoveFirst(s, pat) ==
    LET i == IndexOf(s, pat)
    IN IF i = 0 THEN s
       ELSE SubSeq(s, 1, i - 1) \o SubSeq(s, i + Len(pat), Len(s))

Slash == <<"/">>
Dot == <<".">>
Colon == <<":">>
ShaMark == <<"@", "s", "h", "a", "2", "5", "6", ":">>
LatestSuffix == <<":", "l", "a", "t", "e", "s", "t">>

\* Characters of url.parse's protocolPattern /^[a-z0-9.+-]+:/i.
ProtoChars ==
    {"a", "b", "c", "d", "e", "f", "g", "h", "i", "j", "k", "l", "m",
     "n", "o", "p", "q", "r", "s", "t", "u", "v", "w", "x", "y", "z",
     "0", "1", "2", "3", "4", "5", "6", "7", "8", "9", ".", "+", "-"}

\* url.parse(s) finds a protocol: a non-empty run of ProtoChars, then ':'.
HasProtocol(s) ==
    LET c == IndexOf(s, Colon)
    IN /\ c > 1
       /\ \A k \in 1..(c - 1) : s[k] \in ProtoChars

\* url.parse's hostPattern /^\/\/[^@\/]+@[^@\/]+/ : "//user@host".
HasHostPattern(s) ==
    /\ MatchAt(s, <<"/", "/">>, 1)
    /\ \E a \in 4..(Len(s) - 1) :
          /\ s[a] = "@"
          /\ \A k \in 3..(a - 1) : s[k] \notin {"@", "/"}
          /\ s[a + 1] \notin {"@", "/"}

\* urlObj.path !== fullName, for names made of letters, digits and . : / @ + -
\* (no '#', '?', blanks or escaped characters): the legacy parser drops a
\* protocol, and parses "//user@host" as a host.
UrlPathDiffers(s) == HasProtocol(s) \/ HasHostPattern(s)

\* ------------------------------------------------------- parseImageName

\* The first segment is a registry whenever the name has a separator and a
\* dot or a colon anywhere.
RegistryFound_AnyDot(fullName) ==
    /\ Includes(fullName, Slash)
    /\ (Includes(fullName, Dot) \/ Includes(fullName, Colon))

\* Lines 129-143: the registry, and the name it leaves.
RegistryFound(fullName) ==
    /\ Includes(fullName, Slash)
    /\ (Includes(fullName, Dot) \/ Includes(fullName, Colon))
    /\ \/ UrlPathDiffers(fullName)
       \/ Includes(SplitFirst(fullName, Slash), Dot)
       \/ Includes(SplitFirst(fullName, Slash), Colon)

RegistryOf(fullName) ==
    IF RegistryFound(fullName) THEN SplitFirst(fullName, Slash) ELSE <<>>

AfterRegistry(fullName) ==
    IF RegistryFound(fullName)
    THEN RemoveFirst(fullName, SplitFirst(fullName, Slash) \o Slash)
    ELSE fullName

\* Lines 145-151: the digest, and the name it leaves.
DigestOf(name) ==
    IF Includes(name, ShaMark) THEN SplitLast(name, ShaMark) ELSE <<>>

\* The digest is left in the name.
AfterDigest_Kept(name) == name

AfterDigest(name) ==
    IF Includes(name, ShaMark)
    THEN RemoveFirst(name, ShaMark \o SplitLast(name, ShaMark))
    ELSE name

\* Lines 153-159: the tag, and the name it leaves.
TagOf(name) ==
    IF Includes(name, Colon) THEN SplitLast(name, Colon) ELSE <<>>

AfterTag(name) ==
    IF Includes(name, Colon)
    THEN RemoveFirst(name, Colon \o SplitLast(name, Colon))
    ELSE name

parseImageName(fullName) ==
    IF fullName = <<>>
    THEN [registry |-> <<>>, repo |-> <<>>, tag |-> <<>>, digest |-> <<>>]
    ELSE LET r == AfterRegistry(fullName)
             d == AfterDigest(r)
         IN [registry |-> RegistryOf(fullName),
             repo     |-> AfterTag(d),
             tag      |-> TagOf(d),
             digest   |-> DigestOf(r)]

\* ------------------------------------------------------------------ state

VARIABLES
    certsReadable, \* the configured certificate files can be read (lines 59-69)
    dockerConn,  \* line 14: the memoized client, Unset until a probe succeeds
    pc,          \* per call: "idle", the await it is suspended at, or "ret"
    stack,       \* per call: the functions it is inside, the outermost first
    fullName,    \* per call: the fullName argument of getImage / exportImage
    site,        \* per call: which makeRequest of getImage is in progress
    opts,        \* per call: the options of the getConnection in progress
    client,      \* per call: what its last getConnection returned
    val,         \* per call: the value the function on top of stack returned
    thrown,      \* per call: the function on top of stack threw instead
    log,         \* per call: its makeRequest invocations, in order
    pings,       \* per call: how many _ping probes it has issued
    lastPing,    \* per call: how its latest probe ended
    reprobes,    \* the calls that issued a probe after a probe had failed
                 \* with an error other than ECONNREFUSED
    dirs,        \* per call: the directories exportImage created on disk
    outer,       \* per call: the pipeline of images/{ref}/get into tar.x:
                 \* "none", "streaming", "extracted" or "failed"
    manifest,    \* per call: manifest.json of the exported archive
    layerFiles,  \* per call: the paths inside each layer archive
    tree,        \* per call: the content of each path of all-layers
    started,     \* per call: the layers whose extraction has begun, in order
    completed,   \* per call: how many layer extractions have completed
    config,      \* per call: the last layer's json file as exportImage found
                 \* it, "none" before it looks for it
    exportData,  \* per call: the argument of its getPkgPathList
    explodedDirs, \* per call: the marker directories in the exploded tree
    globFails    \* per call: the searches <<root, name>> whose glob throws

connVars == <<certsReadable, dockerConn, opts, client, pings, lastPing, reprobes>>
ctlVars == <<pc, stack, fullName, site, val, thrown, log>>
fsVars == <<dirs, outer, manifest, layerFiles, tree, started, completed, config,
            exportData, explodedDirs, globFails>>
vars == <<certsReadable, dockerConn, pc, stack, fullName, site, opts, client, val, thrown,
          log, pings, lastPing, reprobes, dirs, outer, manifest, layerFiles, tree,
          started, completed, config, exportData, explodedDirs, globFails>>

\* JavaScript undefined, as a value and as the unset connection.
Undefined == "undefined"
Unset == <<>>

\* An object without properties: {}.
EmptyObject == <<>>

\* got.extend(opts): a new client object each time it is evaluated.
NewClient(c, o) == <<c, o>>

\* The options argument of getConnection: none, or an override object.
Options == {"none", "override"}

\* Image references handed to getImage / exportImage.
FullNames ==
    { <<"a">>,
      <<"a", ":", "t">>,
      <<"a">> \o ShaMark \o <<"d">>,
      <<"r", ".", "i", "/", "a">> }

\* Paths and methods handed to makeRequest by outside callers.
RawRequests ==
    { [kind |-> "raw", ref |-> <<"x">>, method |-> m] :
        m \in {"GET", "POST", "DELETE"} }

\* Layer archives of an exported image, and the files they can hold.
LayerNames == {"l1", "l2"}
Paths == {"f", "g"}

NoFiles == [n \in LayerNames |-> {}]
EmptyTree == [f \in Paths |-> "none"]
NoManifest == [state |-> "none", descs |-> <<>>]

Top(c) == stack[c][Len(stack[c])]
Caller(c) == stack[c][Len(stack[c]) - 1]
Pop(c) == SubSeq(stack[c], 1, Len(stack[c]) - 1)

\* The call's outermost function has returned or thrown.
Done(c) == pc[c] = "ret" /\ Len(stack[c]) = 1

Init ==
    /\ certsReadable \in BOOLEAN
    /\ dockerConn = Unset
    /\ pc = [c \in Calls |-> "idle"]
    /\ stack = [c \in Calls |-> <<>>]
    /\ fullName = [c \in Calls |-> <<>>]
    /\ site = [c \in Calls |-> "none"]
    /\ opts = [c \in Calls |-> "none"]
    /\ client = [c \in Calls |-> Unset]
    /\ val = [c \in Calls |-> Undefined]
    /\ thrown = [c \in Calls |-> FALSE]
    /\ log = [c \in Calls |-> <<>>]
    /\ pings = [c \in Calls |-> 0]
    /\ lastPing = [c \in Calls |-> "none"]
    /\ reprobes = {}
    /\ dirs = [c \in Calls |-> {}]
    /\ outer = [c \in Calls |-> "none"]
    /\ manifest = [c \in Calls |-> NoManifest]
    /\ layerFiles = [c \in Calls |-> NoFiles]
    /\ tree = [c \in Calls |-> EmptyTree]
    /\ started = [c \in Calls |-> <<>>]
    /\ completed = [c \in Calls |-> 0]
    /\ config = [c \in Calls |-> "none"]
    /\ exportData = [c \in Calls |-> EmptyObject]
    /\ explodedDirs = [c \in Calls |-> {}]
    /\ globFails = [c \in Calls |-> {}]

\* ------------------------------------------------------------ getConnection

\* Probe outcomes: success, connection refused (line 83), any other failure.
PingFailures == {"ECONNREFUSED", "other"}
PingOutcomes == {"ok"} \cup PingFailures

\* A single-attempt policy: no probe once a probe has failed.
NeedsProbe_SingleAttempt(conn) ==
    conn = Unset /\ \A d \in Calls : lastPing[d] \notin PingFailures

\* Line 77: if (!dockerConn).
NeedsProbe(conn) == conn = Unset

\* Lines 76-80, up to the await of the probe: getConnection(o) entered by call
\* c.  With the connection set it returns it at once (line 90).  Otherwise it
\* builds its options and issues the _ping probe; getDefaultOptions throws
\* when the configured certificate files cannot be read (lines 61, 65), which
\* is a fact of the process's configuration.
EnterGetConnection(c, o) ==
    /\ UNCHANGED <<certsReadable, dockerConn>>
    /\ IF NeedsProbe(dockerConn)
       THEN   IF certsReadable
              THEN /\ pc' = [pc EXCEPT ![c] = "ping"]
                   /\ opts' = [opts EXCEPT ![c] = o]
                   /\ pings' = [pings EXCEPT ![c] = @ + 1]
                   /\ lastPing' = [lastPing EXCEPT ![c] = "pending"]
                   /\ reprobes' = IF \E d \in Calls : lastPing[d] = "other"
                                  THEN reprobes \cup {c} ELSE reprobes
                   /\ thrown' = [thrown EXCEPT ![c] = FALSE]
                   /\ UNCHANGED client
              ELSE /\ pc' = [pc EXCEPT ![c] = "ret"]
                   /\ thrown' = [thrown EXCEPT ![c] = TRUE]
                   /\ client' = [client EXCEPT ![c] = Unset]
                   /\ UNCHANGED <<opts, pings, lastPing, reprobes>>
       ELSE /\ pc' = [pc EXCEPT ![c] = "ret"]
            /\ thrown' = [thrown EXCEPT ![c] = FALSE]
            /\ client' = [client EXCEPT ![c] = dockerConn]
            /\ UNCHANGED <<opts, pings, lastPing, reprobes>>

\* An outside caller calls getConnection(o).
GetConnectionCall(c, o) ==
    /\ pc[c] = "idle"
    /\ stack' = [stack EXCEPT ![c] = <<"getConnection">>]
    /\ EnterGetConnection(c, o)
    /\ UNCHANGED <<fullName, site, val, log>>
    /\ UNCHANGED fsVars

\* A failed probe clears the memoized client.
PingResolves_Forgets(c, outcome) ==
    /\ pc[c] = "ping"
    /\ dockerConn' = IF outcome = "ok" THEN NewClient(c, opts[c]) ELSE Unset
    /\ client' = [client EXCEPT ![c] = dockerConn']
    /\ lastPing' = [lastPing EXCEPT ![c] = outcome]
    /\ pc' = [pc EXCEPT ![c] = "ret"]
    /\ thrown' = [thrown EXCEPT ![c] = FALSE]
    /\ UNCHANGED <<certsReadable, stack, fullName, site, opts, val, log, pings,
                   reprobes>>
    /\ UNCHANGED fsVars

\* Lines 80-90, from the await on: the probe of call c ends.  On success the
\* client is memoized (line 81); a failure is only logged (lines 82-88); in
\* both cases the function returns what dockerConn holds then (line 90).
PingResolves(c, outcome) ==
    /\ pc[c] = "ping"
    /\ dockerConn' = IF outcome = "ok" THEN NewClient(c, opts[c]) ELSE dockerConn
    /\ client' = [client EXCEPT ![c] = dockerConn']
    /\ lastPing' = [lastPing EXCEPT ![c] = outcome]
    /\ pc' = [pc EXCEPT ![c] = "ret"]
    /\ thrown' = [thrown EXCEPT ![c] = FALSE]
    /\ UNCHANGED <<certsReadable, stack, fullName, site, opts, val, log, pings,
                   reprobes>>
    /\ UNCHANGED fsVars

\* -------------------------------------------------------------- makeRequest

Request(kind, ref, method) ==
    [kind |-> kind, ref |-> ref, method |-> method,
     sent |-> FALSE, outcome |-> "pending"]

\* The last invocation of the log, with how far it got.
MarkLast(l, sent, outcome) ==
    [l EXCEPT ![Len(l)] = [@ EXCEPT !.sent = sent, !.outcome = outcome]]

\* Line 100: GET bodies are decoded as JSON, the others as text.
Body(method) == IF method = "GET" THEN "json" ELSE "text"

\* The request goes out whatever getConnection returned.
NoClient_Never(cl) == FALSE

\* Line 96: if (!client).
NoClient(cl) == cl = Unset

\* Line 95, up to the await: makeRequest(path, method) entered by call c.
EnterMakeRequest(c, req) ==
    /\ log' = [log EXCEPT ![c] = Append(@, req)]
    /\ EnterGetConnection(c, "none")

\* An outside caller calls makeRequest(path, method).
MakeRequestCall(c, req) ==
    /\ pc[c] = "idle"
    /\ stack' = [stack EXCEPT ![c] = <<"makeRequest", "getConnection">>]
    /\ EnterMakeRequest(c, req)
    /\ UNCHANGED <<fullName, site, val>>
    /\ UNCHANGED fsVars

\* Lines 95-105: getConnection has returned into makeRequest.  Without a
\* client the result is undefined (line 97); with one the request is sent
\* (line 105), unless building the options throws (line 104).  A throw of
\* getConnection is not caught here.
MakeRequestResume(c) ==
    /\ pc[c] = "ret"
    /\ Len(stack[c]) >= 2
    /\ Top(c) = "getConnection"
    /\ Caller(c) = "makeRequest"
    /\ stack' = [stack EXCEPT ![c] = Pop(c)]
    /\ IF thrown[c]
       THEN /\ log' = [log EXCEPT ![c] = MarkLast(@, FALSE, "throw")]
            /\ UNCHANGED <<pc, val, thrown>>
       ELSE IF NoClient(client[c])
       THEN /\ log' = [log EXCEPT ![c] = MarkLast(@, FALSE, "undefined")]
            /\ val' = [val EXCEPT ![c] = Undefined]
            /\ UNCHANGED <<pc, thrown>>
       ELSE   IF certsReadable
              THEN /\ log' = [log EXCEPT ![c] = MarkLast(@, TRUE, "pending")]
                   /\ pc' = [pc EXCEPT ![c] = "wait"]
                   /\ UNCHANGED <<val, thrown>>
              ELSE /\ log' = [log EXCEPT ![c] = MarkLast(@, FALSE, "throw")]
                   /\ thrown' = [thrown EXCEPT ![c] = TRUE]
                   /\ UNCHANGED <<pc, val>>
    /\ UNCHANGED <<fullName, site>>
    /\ UNCHANGED connVars
    /\ UNCHANGED fsVars

\* Line 105, from the await on: the engine answers the request of call c, or
\* the transport fails (a non-2xx status included, throwHttpErrors).
RequestResolves(c, ok) ==
    /\ pc[c] = "wait"
    /\ pc' = [pc EXCEPT ![c] = "ret"]
    /\ IF ok
       THEN /\ val' = [val EXCEPT ![c] = Body(log[c][Len(log[c])].method)]
            /\ log' = [log EXCEPT ![c] = MarkLast(@, TRUE, "ok")]
            /\ UNCHANGED thrown
       ELSE /\ thrown' = [thrown EXCEPT ![c] = TRUE]
            /\ log' = [log EXCEPT ![c] = MarkLast(@, TRUE, "throw")]
            /\ UNCHANGED val
    /\ UNCHANGED <<stack, fullName, site>>
    /\ UNCHANGED connVars
    /\ UNCHANGED fsVars

\* ----------------------------------------------------------------- getImage

\* ':latest' is appended to every reference.
WorkingRef_AlwaysLatest(name) == name \o LatestSuffix

\* Lines 171-175: the reference getImage works with.
WorkingRef(name) ==
    LET n == parseImageName(name)
    IN IF n.tag = <<>> /\ n.digest = <<>> THEN name \o LatestSuffix ELSE name

\* The makeRequest of each site: images/${repo}/json (lines 177 and 198),
\* images/create?fromImage=${fullName} (lines 187-190) and
\* images/${fullName}/json (line 206).
RequestAt(s, name) ==
    CASE s = "inspect1" -> Request("inspect", parseImageName(name).repo, "GET")
      [] s = "pull"     -> Request("pull", WorkingRef(name), "POST")
      [] s = "inspect2" -> Request("inspect", parseImageName(name).repo, "GET")
      [] s = "inspect3" -> Request("inspect", WorkingRef(name), "GET")

\* The pull is issued after the first inspect however it ended.
AfterReturn_AlwaysPull(s) ==
    CASE s = "inspect1" -> "pull"
      [] s = "pull"     -> "inspect2"
      [] s = "inspect2" -> "return"
      [] s = "inspect3" -> "return"

\* Where getImage goes when the makeRequest of site s returns: the three
\* inspects assign localData and fall through to line 216, the pull is
\* followed by the second inspect (line 198).
AfterReturn(s) ==
    CASE s = "inspect1" -> "return"
      [] s = "pull"     -> "inspect2"
      [] s = "inspect2" -> "return"
      [] s = "inspect3" -> "return"

\* The second inspect follows the pull even when the pull throws.
AfterThrow_Reinspect(s) ==
    CASE s = "inspect1" -> "pull"
      [] s = "pull"     -> "inspect2"
      [] s = "inspect2" -> "inspect3"
      [] s = "inspect3" -> "return"

\* The inspect of the full reference is outside every try block.
AfterThrow_Uncaught(s) ==
    CASE s = "inspect1" -> "pull"
      [] s = "pull"     -> "return"
      [] s = "inspect2" -> "inspect3"
      [] s = "inspect3" -> "raise"

\* Where getImage goes when the makeRequest of site s throws: the catch of
\* line 181 pulls, the catch of line 202 inspects the full reference, and
\* the catch of line 211 takes the throws of the pull and of that last
\* inspect.
AfterThrow(s) ==
    CASE s = "inspect1" -> "pull"
      [] s = "pull"     -> "return"
      [] s = "inspect2" -> "inspect3"
      [] s = "inspect3" -> "return"

\* A makeRequest that returned undefined counts as one that threw.
GetImageGoes_AbsentFails(c) ==
    IF thrown[c] \/ val[c] = Undefined
    THEN AfterThrow(site[c]) ELSE AfterReturn(site[c])

\* Lines 176-215: where getImage goes after the makeRequest in progress.
GetImageGoes(c) ==
    IF thrown[c] THEN AfterThrow(site[c]) ELSE AfterReturn(site[c])

\* Lines 169-177, up to the first await: getImage(name) entered by call c,
\* whose stack ends with getImage already.
EnterGetImage(c, name) ==
    /\ fullName' = [fullName EXCEPT ![c] = name]
    /\ site' = [site EXCEPT ![c] = "inspect1"]
    /\ EnterMakeRequest(c, RequestAt("inspect1", name))

\* An outside caller calls getImage(name).
GetImageCall(c, name) ==
    /\ pc[c] = "idle"
    /\ stack' = [stack EXCEPT ![c] = <<"getImage", "makeRequest", "getConnection">>]
    /\ EnterGetImage(c, name)
    /\ UNCHANGED val
    /\ UNCHANGED fsVars

InGetImage(c) ==
    /\ pc[c] = "ret"
    /\ Len(stack[c]) >= 2
    /\ Top(c) = "makeRequest"
    /\ Caller(c) = "getImage"

\* A makeRequest has returned or thrown into getImage, and getImage issues
\* its next one (lines 187, 198, 206).
GetImageNextRequest(c) ==
    /\ InGetImage(c)
    /\ GetImageGoes(c) \notin {"return", "raise"}
    /\ site' = [site EXCEPT ![c] = GetImageGoes(c)]
    /\ stack' = [stack EXCEPT ![c] = Append(@, "getConnection")]
    /\ EnterMakeRequest(c, RequestAt(GetImageGoes(c), fullName[c]))
    /\ UNCHANGED <<fullName, val>>
    /\ UNCHANGED fsVars

\* A makeRequest has returned or thrown into getImage, and getImage is over:
\* it returns localData (line 216), which is the body of the inspect that
\* has just returned, and undefined after a caught throw.
GetImageReturns(c) ==
    /\ InGetImage(c)
    /\ GetImageGoes(c) \in {"return", "raise"}
    /\ stack' = [stack EXCEPT ![c] = Pop(c)]
    /\ IF GetImageGoes(c) = "raise"
       THEN UNCHANGED <<val, thrown>>
       ELSE /\ val' = [val EXCEPT ![c] = IF thrown[c] THEN Undefined ELSE @]
            /\ thrown' = [thrown EXCEPT ![c] = FALSE]
    /\ UNCHANGED <<pc, fullName, site, log>>
    /\ UNCHANGED connVars
    /\ UNCHANGED fsVars

\* ------------------------------------------------- parseImageName, called

\* The pieces reference strings are made of.
Pieces == {<<"a">>, Slash, Dot, Colon, <<"@">>, ShaMark}

RECURSIVE Flatten(_)
\* The string made of the pieces ps, in order.
Flatten(ps) == IF ps = <<>> THEN <<>> ELSE Head(ps) \o Flatten(Tail(ps))

\* Lines 112-115: a reference [registry/]repo[:tag][@sha256:digest].
Compose(registry, repo, tag, digest) ==
    (IF registry = <<>> THEN <<>> ELSE registry \o Slash)
    \o repo
    \o (IF tag = <<>> THEN <<>> ELSE Colon \o tag)
    \o (IF digest = <<>> THEN <<>> ELSE ShaMark \o digest)

\* References of the documented shape (lines 112-115).
ShapedNames ==
    { Compose(registry, repo, tag, digest) :
        registry \in {<<>>, <<"r", ".", "i">>, <<"r", ":", "5">>,
                      <<"r", ".", "i", ":", "5">>},
        repo \in {<<"a">>, <<"a", "/", "b">>, <<"a", "-", "b", "/", "c", ".", "d">>},
        tag \in {<<>>, <<"t">>, <<"1", ".", "0">>},
        digest \in {<<>>, <<"d">>} }

\* The strings handed to parseImageName: every string of at most MaxPieces
\* pieces (the empty one included), and the documented shapes.
Names ==
    {Flatten(ps) : ps \in UNION {[1..k -> Pieces] : k \in 0..MaxPieces}}
    \cup ShapedNames

\* An outside caller calls parseImageName(name) (a synchronous function).
ParseImageNameCall(c, name) ==
    /\ pc[c] = "idle"
    /\ stack' = [stack EXCEPT ![c] = <<"parseImageName">>]
    /\ pc' = [pc EXCEPT ![c] = "ret"]
    /\ fullName' = [fullName EXCEPT ![c] = name]
    /\ val' = [val EXCEPT ![c] = parseImageName(name)]
    /\ UNCHANGED <<site, thrown, log>>
    /\ UNCHANGED connVars
    /\ UNCHANGED fsVars

\* ---------------------------------------------------------- getPkgPathList

\* WorkingDir strings of an image configuration.
WorkingDirs == {"", "/app", "app", "/w"}

\* The lastLayerConfig of an export: {} (no json file), a json file without
\* config, one with an empty config, one with config.WorkingDir.
LastLayerConfigs ==
    {EmptyObject, [id |-> "l"], [config |-> EmptyObject]}
    \cup {[config |-> [WorkingDir |-> w]] : w \in WorkingDirs}

\* Line 319: exportData.lastLayerConfig.config.WorkingDir throws a TypeError
\* when config is undefined; line 322: path.join throws a TypeError on a
\* WorkingDir that is undefined.
WorkingDirThrows(lastLayerConfig) ==
    \/ "config" \notin DOMAIN lastLayerConfig
    \/ "WorkingDir" \notin DOMAIN lastLayerConfig.config

\* Line 319, when it does not throw.
WorkingDirOf(lastLayerConfig) ==
    IF WorkingDirThrows(lastLayerConfig) THEN ""
    ELSE lastLayerConfig.config.WorkingDir

\* Lines 323-335: the fixed roots, in the order of the code.
SysPaths ==
    << "/usr/lib", "/usr/lib64", "/usr/local/lib", "/usr/local/lib64", "/opt",
       "/home", "/usr/share", "/var/www/html", "/var/lib", "/mnt", "/app",
       "/data", "/srv" >>

\* path.join(allLayersExplodedDir, p), written relative to
\* allLayersExplodedDir ("" is that directory itself): the segments of p are
\* appended, whether or not p starts with a separator.
PathJoin(p) == IF p = "app" THEN "/app" ELSE p

\* Lines 321-336.
knownSysPaths(lastWorkingDir) ==
    <<PathJoin(lastWorkingDir)>> \o [i \in 1..Len(SysPaths) |-> PathJoin(SysPaths[i])]

\* A directory of the exploded tree: the directory `at` it lies beneath (one
\* of the roots, or another place of the tree), its name ("" for `at`
\* itself), and whether a dot-directory lies between the two.
Dir(at, name, hidden) == [at |-> at, name |-> name, hidden |-> hidden]

\* The marker directories an exploded tree may hold, in the order in which
\* glob lists them.
GlobOrder ==
    << Dir("/app", ".cargo", FALSE),
       Dir("/app", "gems", FALSE),
       Dir("/root", ".composer", FALSE),
       Dir("/usr/lib", "site-packages", TRUE),
       Dir("/usr/lib", "site-packages", FALSE),
       Dir("/w", ".cargo", TRUE) >>

MarkerDirs == {GlobOrder[i] : i \in 1..Len(GlobOrder)}

\* The searches that may throw.
Searches == {<<"", "site-packages">>, <<"/app", ".cargo">>, <<"/usr/lib", "site-packages">>}

\* Directory d lies beneath wpath: everything lies beneath the exploded
\* directory itself, and no root lies beneath another one.
Beneath(d, wpath) == wpath = "" \/ d.at = wpath

\* Lines 27-42: glob.sync("**/" + dirName) under dirPath, which does not
\* descend into dot-directories unless hidden is set; [] when glob throws.
getDirs(dirPath, dirName, hidden, disk, fails) ==
    IF <<dirPath, dirName>> \in fails THEN <<>>
    ELSE SelectSeq(GlobOrder,
                   LAMBDA d : /\ d \in disk
                              /\ d.name = dirName
                              /\ Beneath(d, dirPath)
                              /\ d.hidden => hidden)

\* A root whose searches found something is not listed itself, and .composer
\* is searched before .cargo.
Contribution_Reordered(wpath, disk, fails) ==
    LET found ==
            getDirs(wpath, "site-packages", FALSE, disk, fails)
            \o getDirs(wpath, "gems", FALSE, disk, fails)
            \o getDirs(wpath, ".composer", TRUE, disk, fails)
            \o getDirs(wpath, ".cargo", TRUE, disk, fails)
    IN IF found = <<>> THEN <<Dir(wpath, "", FALSE)>> ELSE found

\* Lines 339-355: what one root adds to pathList (concatenating an empty
\* list, which the code skips, adds nothing).
Contribution(wpath, disk, fails) ==
    <<Dir(wpath, "", FALSE)>>
    \o getDirs(wpath, "site-packages", FALSE, disk, fails)
    \o getDirs(wpath, "gems", FALSE, disk, fails)
    \o getDirs(wpath, ".cargo", TRUE, disk, fails)
    \o getDirs(wpath, ".composer", TRUE, disk, fails)

RECURSIVE PathListOf(_, _, _)
\* Lines 338-357: the loop over knownSysPaths.
PathListOf(roots, disk, fails) ==
    IF roots = <<>> THEN <<>>
    ELSE Contribution(Head(roots), disk, fails)
         \o PathListOf(Tail(roots), disk, fails)

\* Lines 316-358, when line 319 and line 322 do not throw.
getPkgPathList(data, disk, fails) ==
    PathListOf(knownSysPaths(WorkingDirOf(data.lastLayerConfig)), disk, fails)

\* An outside caller calls getPkgPathList(data) on an exploded tree.
GetPkgPathListCall(c, data, disk, fails) ==
    /\ pc[c] = "idle"
    /\ stack' = [stack EXCEPT ![c] = <<"getPkgPathList">>]
    /\ pc' = [pc EXCEPT ![c] = "ret"]
    /\ exportData' = [exportData EXCEPT ![c] = data]
    /\ explodedDirs' = [explodedDirs EXCEPT ![c] = disk]
    /\ globFails' = [globFails EXCEPT ![c] = fails]
    /\ IF WorkingDirThrows(data.lastLayerConfig)
       THEN /\ thrown' = [thrown EXCEPT ![c] = TRUE]
            /\ UNCHANGED val
       ELSE /\ val' = [val EXCEPT ![c] = getPkgPathList(data, disk, fails)]
            /\ UNCHANGED thrown
    /\ UNCHANGED <<fullName, site, log>>
    /\ UNCHANGED connVars
    /\ UNCHANGED <<dirs, outer, manifest, layerFiles, tree, started, completed, config>>

\* -------------------------------------------------------------- exportImage

\* Sequences over S of length at most n.
SeqsUpTo(S, n) == UNION {[1..k -> S] : k \in 0..n}

RECURSIVE Entries(_)
\* The number of layer entries of a list of descriptors.
Entries(descs) ==
    IF descs = <<>> THEN 0 ELSE Len(Head(descs)) + Entries(Tail(descs))

\* manifest.json as the outer archive can leave it: absent, not parseable as
\* a list of descriptors with Layers, or a list of descriptors, each given by
\* its Layers.
Manifests ==
    { [state |-> st, descs |-> <<>>] : st \in {"absent", "invalid"} }
    \cup
    { [state |-> "ok", descs |-> d] :
        d \in { x \in SeqsUpTo(SeqsUpTo(LayerNames, MaxLayers), MaxDescriptors) :
                  Entries(x) <= MaxLayers } }

\* The last layer's json file (line 282): absent, not JSON, JSON without a
\* config object, a config without a WorkingDir string, or complete.
ConfigFiles == {"absent", "invalid", "noConfig", "noWorkingDir", "ok"}

\* The export goes on without inspect data.
NoLocalData_Ignored(v) == FALSE

\* Line 226: if (!localData).
NoLocalData(v) == v = Undefined

\* Line 249: fs.existsSync(tempDir) && fs.existsSync(manifestFile).
Exported(d, m) == "tempDir" \in d /\ m.state # "absent"

\* The Layers of the first descriptor are taken.
LayersOf_First(m) == m.descs[1]

\* Line 268: the Layers of the last descriptor.
LayersOf(m) == m.descs[Len(m.descs)]

\* The layers are taken from the last to the first.
LayerAt_Reversed(layers, k) == layers[Len(layers) + 1 - k]

\* Line 270: for (let layer of layers), the k-th layer extracted.
LayerAt(layers, k) == layers[k]

\* tar.x into all-layers (lines 274-281): the files of the archive replace
\* what the directory holds at their paths.
Overlay(t, files, content) ==
    [f \in Paths |-> IF f \in files THEN content ELSE t[f]]

\* The half-built export data is returned when the export gives up.
ExportFailure_Partial == "exportData"

\* Lines 306-309: what exportImage returns when it gives up.
ExportFailure == Undefined

\* Lines 286-293: lastLayerConfig is {} without the file, and what
\* JSON.parse makes of the file otherwise (a complete file is one that
\* carries config.WorkingDir; the export does not depend on its value).
LastLayerConfig(cfg) ==
    CASE cfg = "absent" -> EmptyObject
      [] cfg = "noConfig" -> [id |-> "l"]
      [] cfg = "noWorkingDir" -> [config |-> EmptyObject]
      [] cfg = "ok" -> [config |-> [WorkingDir |-> "/app"]]

\* Lines 287-293 and 301: JSON.parse throws on a file that is not JSON, and
\* getPkgPathList throws on a lastLayerConfig without config.WorkingDir.
ConfigThrows(cfg) ==
    \/ cfg = "invalid"
    \/ WorkingDirThrows(LastLayerConfig(cfg))

\* An outside caller calls exportImage(name): getImage first (line 225).
ExportImageCall(c, name) ==
    /\ pc[c] = "idle"
    /\ stack' = [stack EXCEPT ![c] =
                    <<"exportImage", "getImage", "makeRequest", "getConnection">>]
    /\ EnterGetImage(c, name)
    /\ UNCHANGED val
    /\ UNCHANGED fsVars

AfterGetImage(c) ==
    /\ pc[c] = "ret"
    /\ Len(stack[c]) >= 2
    /\ Top(c) = "getImage"
    /\ Caller(c) = "exportImage"

\* Lines 225-228: getImage gave nothing, exportImage returns undefined (a
\* throw of getImage would not be caught here).
ExportGivesUp(c) ==
    /\ AfterGetImage(c)
    /\ thrown[c] \/ NoLocalData(val[c])
    /\ stack' = [stack EXCEPT ![c] = Pop(c)]
    /\ val' = [val EXCEPT ![c] = IF thrown[c] THEN @ ELSE Undefined]
    /\ UNCHANGED <<pc, fullName, site, thrown, log>>
    /\ UNCHANGED connVars
    /\ UNCHANGED fsVars

\* Lines 229-234: with inspect data, exportImage asks for the client.
ExportGetsClient(c) ==
    /\ AfterGetImage(c)
    /\ ~thrown[c]
    /\ ~NoLocalData(val[c])
    /\ stack' = [stack EXCEPT ![c] = <<"exportImage", "getConnection">>]
    /\ EnterGetConnection(c, "none")
    /\ UNCHANGED <<fullName, site, val, log>>
    /\ UNCHANGED fsVars

\* Lines 234-248: getConnection has returned into exportImage.  mkdtempSync
\* and mkdirSync run before the try block, so their failures leave the
\* function as throws; inside it, client.stream throws on an undefined client
\* and is caught; otherwise the export is requested and piped into tar.x.
ExportStart(c, mkdtempOk, mkdirOk) ==
    /\ pc[c] = "ret"
    /\ Len(stack[c]) >= 2
    /\ Top(c) = "getConnection"
    /\ Caller(c) = "exportImage"
    /\ stack' = [stack EXCEPT ![c] = Pop(c)]
    /\ IF thrown[c]
       THEN UNCHANGED <<pc, val, thrown, dirs, outer>>
       ELSE IF ~mkdtempOk
       THEN /\ thrown' = [thrown EXCEPT ![c] = TRUE]
            /\ UNCHANGED <<pc, val, dirs, outer>>
       ELSE IF ~mkdirOk
       THEN /\ thrown' = [thrown EXCEPT ![c] = TRUE]
            /\ dirs' = [dirs EXCEPT ![c] = {"tempDir"}]
            /\ UNCHANGED <<pc, val, outer>>
       ELSE /\ dirs' = [dirs EXCEPT ![c] = {"tempDir", "allLayersExplodedDir"}]
            /\ IF NoClient(client[c])
               THEN /\ val' = [val EXCEPT ![c] = ExportFailure]
                    /\ UNCHANGED <<pc, thrown, outer>>
               ELSE /\ outer' = [outer EXCEPT ![c] = "streaming"]
                    /\ pc' = [pc EXCEPT ![c] = "outer"]
                    /\ UNCHANGED <<val, thrown>>
    /\ UNCHANGED <<fullName, site, log>>
    /\ UNCHANGED connVars
    /\ UNCHANGED <<manifest, layerFiles, tree, started, completed, config>>
    /\ UNCHANGED <<exportData, explodedDirs, globFails>>

\* Lines 242-269, from the await on: the outer archive has been extracted
\* into tempDir, leaving manifest m and layer archives lf there, or the
\* pipeline failed part-way (ok = FALSE).  Without manifest.json the else
\* branch of line 303 is taken; a manifest that cannot be parsed, has no
\* descriptor or names no layer throws (lines 255, 268, 284); otherwise the
\* first layer's extraction starts (line 274).
OuterExtracted(c, ok, m, lf) ==
    /\ manifest' = [manifest EXCEPT ![c] = m]
    /\ layerFiles' = [layerFiles EXCEPT ![c] = lf]
    /\ outer' = [outer EXCEPT ![c] = IF ok THEN "extracted" ELSE "failed"]
    /\ IF /\ ok
          /\ Exported(dirs[c], m)
          /\ m.state = "ok"
          /\ m.descs # <<>>
          /\ LayersOf(m) # <<>>
       THEN /\ started' = [started EXCEPT ![c] = <<LayerAt(LayersOf(m), 1)>>]
            /\ pc' = [pc EXCEPT ![c] = "layer"]
            /\ UNCHANGED val
       ELSE /\ val' = [val EXCEPT ![c] = ExportFailure]
            /\ pc' = [pc EXCEPT ![c] = "ret"]
            /\ UNCHANGED started
    /\ UNCHANGED <<stack, fullName, site, thrown, log>>
    /\ UNCHANGED connVars
    /\ UNCHANGED <<dirs, tree, completed, config>>
    /\ UNCHANGED <<exportData, explodedDirs, globFails>>

OuterExtractResolves(c) ==
    /\ pc[c] = "outer"
    /\ \E ok \in BOOLEAN, m \in Manifests, lf \in [LayerNames -> SUBSET Paths] :
          OuterExtracted(c, ok, m, lf)

\* Lines 270-302, from the await of line 274 on: the extraction of the layer
\* in progress ends.  A failure (which may have written some of its files)
\* is caught at line 306.  After a success the next layer starts; after the
\* last one the config file cfg is read and the paths are discovered, and a
\* throw there is caught at line 306 too.
LayerExtracted(c, ok, written, cfg) ==
    /\ LET layers == LayersOf(manifest[c])
           k == Len(started[c])
           layer == started[c][k]
       IN /\ written \subseteq layerFiles[c][layer]
          /\ ok => written = layerFiles[c][layer]
          /\ tree' = [tree EXCEPT ![c] = Overlay(@, written, layer)]
          /\ IF ~ok
             THEN /\ val' = [val EXCEPT ![c] = ExportFailure]
                  /\ pc' = [pc EXCEPT ![c] = "ret"]
                  /\ UNCHANGED <<started, completed, config>>
             ELSE /\ completed' = [completed EXCEPT ![c] = @ + 1]
                  /\ IF k < Len(layers)
                     THEN /\ started' = [started EXCEPT ![c] =
                                            Append(@, LayerAt(layers, k + 1))]
                          /\ UNCHANGED <<pc, val, config>>
                     ELSE /\ config' = [config EXCEPT ![c] = cfg]
                          /\ val' = [val EXCEPT ![c] =
                                        IF ConfigThrows(cfg) THEN ExportFailure
                                        ELSE "exportData"]
                          /\ pc' = [pc EXCEPT ![c] = "ret"]
                          /\ UNCHANGED started
    /\ UNCHANGED <<stack, fullName, site, thrown, log>>
    /\ UNCHANGED connVars
    /\ UNCHANGED <<dirs, outer, manifest, layerFiles>>
    /\ UNCHANGED <<exportData, explodedDirs, globFails>>

LayerExtractResolves(c) ==
    /\ pc[c] = "layer"
    /\ \E ok \in BOOLEAN, written \in SUBSET Paths, cfg \in ConfigFiles :
          LayerExtracted(c, ok, written, cfg)

\* --------------------------------------------------------- specifications

\* Outside callers of getConnection and makeRequest, in any interleaving.
NextConn ==
    \E c \in Calls :
        \/ \E o \in Options : GetConnectionCall(c, o)
        \/ \E outcome \in PingOutcomes : PingResolves(c, outcome)
        \/ \E req \in RawRequests : MakeRequestCall(c, Request(req.kind, req.ref, req.method))
        \/ MakeRequestResume(c)
        \/ \E ok \in BOOLEAN : RequestResolves(c, ok)

SpecConn == Init /\ [][NextConn]_vars

\* The call that resolves or exports an image; the other calls are outside
\* callers of getConnection running beside it.
Main == 1

\* One getImage call, beside getConnection calls of other callers.
NextImage ==
    \/ \E name \in FullNames : GetImageCall(Main, name)
    \/ \E c \in Calls \ {Main}, o \in Options : GetConnectionCall(c, o)
    \/ \E c \in Calls, outcome \in PingOutcomes : PingResolves(c, outcome)
    \/ \E c \in Calls : MakeRequestResume(c)
    \/ \E c \in Calls, ok \in BOOLEAN : RequestResolves(c, ok)
    \/ \E c \in Calls : GetImageNextRequest(c)
    \/ \E c \in Calls : GetImageReturns(c)

SpecImage == Init /\ [][NextImage]_vars

\* One exportImage call.
NextExport ==
    \/ \E name \in FullNames : ExportImageCall(Main, name)
    \/ \E outcome \in PingOutcomes : PingResolves(Main, outcome)
    \/ MakeRequestResume(Main)
    \/ \E ok \in BOOLEAN : RequestResolves(Main, ok)
    \/ GetImageNextRequest(Main)
    \/ GetImageReturns(Main)
    \/ ExportGivesUp(Main)
    \/ ExportGetsClient(Main)
    \/ \E mkdtempOk, mkdirOk \in BOOLEAN : ExportStart(Main, mkdtempOk, mkdirOk)
    \/ OuterExtractResolves(Main)
    \/ LayerExtractResolves(Main)

SpecExport == Init /\ [][NextExport]_vars

\* One getPkgPathList call of an outside caller, on any export data and any
\* exploded tree.
NextPaths ==
    /\ pc[Main] = "idle"
    /\ \E data \in [lastLayerConfig : LastLayerConfigs],
          disk \in SUBSET MarkerDirs, fails \in SUBSET Searches :
           GetPkgPathListCall(Main, data, disk, fails)

SpecPaths == Init /\ [][NextPaths]_vars

\* One parseImageName call of an outside caller, on any reference string.
NextParse ==
    /\ pc[Main] = "idle"
    /\ \E name \in Names : ParseImageNameCall(Main, name)

SpecParse == Init /\ [][NextParse]_vars

\* The archive of the exports that run beside other calls: one descriptor
\* with one layer, or no manifest.json.
SmallManifests ==
    { [state |-> "absent", descs |-> <<>>],
      [state |-> "ok", descs |-> <<<<"l1">>>>] }

\* getConnection, getImage and exportImage calls on one image, in any
\* interleaving: call Main and the next call make any of the three, the
\* calls after them getConnection.
NextMixed ==
    \E c \in Calls :
        \/ GetConnectionCall(c, "none")
        \/ c <= Main + 1 /\ GetImageCall(c, <<"a">>)
        \/ c <= Main + 1 /\ ExportImageCall(c, <<"a">>)
        \/ \E outcome \in PingOutcomes : PingResolves(c, outcome)
        \/ MakeRequestResume(c)
        \/ \E ok \in BOOLEAN : RequestResolves(c, ok)
        \/ GetImageNextRequest(c)
        \/ GetImageReturns(c)
        \/ ExportGivesUp(c)
        \/ ExportGetsClient(c)
        \/ \E mkdirOk \in BOOLEAN : ExportStart(c, TRUE, mkdirOk)
        \/ /\ pc[c] = "outer"
           /\ \E ok \in BOOLEAN, m \in SmallManifests :
                 OuterExtracted(c, ok, m, NoFiles)
        \/ /\ pc[c] = "layer"
           /\ \E ok \in BOOLEAN : LayerExtracted(c, ok, {}, "ok")

SpecMixed == Init /\ [][NextMixed]_vars

\* ------------------------------------------------------------------ claims

\* Call c is a call of the exported function f.
Runs(c, f) == stack[c] # <<>> /\ stack[c][1] = f

\* Function f has returned or thrown in call c and its caller has not resumed.
Returned(c, f) == pc[c] = "ret" /\ stack[c] # <<>> /\ Top(c) = f

\* An inspect of call c was answered by the engine.
InspectOk(c) ==
    \E i \in 1..Len(log[c]) :
        log[c][i].kind = "inspect" /\ log[c][i].outcome = "ok"

\* C1: in getImage, when the first inspect (by repo name only) succeeds, no
\* other request follows it in that call, a pull in particular, and the call
\* returns the body of that inspect.
C1_NoPullAfterLocalHit ==
    \A c \in Calls :
        (Runs(c, "getImage") /\ log[c][1].outcome = "ok") =>
            /\ \A i \in 1..Len(log[c]) : log[c][i].kind # "pull"
            /\ Len(log[c]) = 1
            /\ log[c][1].ref = parseImageName(fullName[c]).repo
            /\ Returned(c, "getImage") => (val[c] = "json" /\ ~thrown[c])

C1_Witness ==
    /\ Returned(Main, "getImage")
    /\ log[Main][1].outcome = "ok"
    /\ val[Main] = "json"

\* C2 as stated: once getImage has sent its pull, a second inspect by repo
\* name only is issued before the call returns, however the pull ended.
C2_ReinspectAfterAnyPull ==
    \A c \in Calls :
        ( /\ Runs(c, "getImage")
          /\ Returned(c, "getImage")
          /\ Len(log[c]) >= 2
          /\ log[c][2].kind = "pull"
          /\ log[c][2].sent ) =>
            /\ Len(log[c]) >= 3
            /\ log[c][3].kind = "inspect"
            /\ log[c][3].ref = parseImageName(fullName[c]).repo

\* C2 as amended: after a pull that returned, getImage issues the second
\* inspect by repo name only; after a pull that threw it issues no other
\* request and returns undefined.
C2_ReinspectUnlessPullThrows ==
    \A c \in Calls :
        (Runs(c, "getImage") /\ Len(log[c]) >= 2 /\ log[c][2].kind = "pull") =>
            /\ log[c][2].outcome = "throw" =>
                 /\ Len(log[c]) = 2
                 /\ Returned(c, "getImage") =>
                        (val[c] = Undefined /\ ~thrown[c])
            /\ (log[c][2].outcome \in {"ok", "undefined"}
                   /\ Returned(c, "getImage")) =>
                 /\ Len(log[c]) >= 3
                 /\ log[c][3].kind = "inspect"
                 /\ log[c][3].ref = parseImageName(fullName[c]).repo
                 /\ log[c][3].sent

C2_Witness ==
    /\ Returned(Main, "getImage")
    /\ Len(log[Main]) = 2
    /\ log[Main][2].kind = "pull"
    /\ log[Main][2].sent
    /\ log[Main][2].outcome = "throw"
    /\ val[Main] = Undefined

\* C3: getImage never throws to its caller, whatever the probe, the inspects
\* and the pull did, and it returns undefined when no inspect was answered.
C3_GetImageNeverRaises ==
    \A c \in Calls :
        (Runs(c, "getImage") /\ Returned(c, "getImage")) =>
            /\ ~thrown[c]
            /\ ~InspectOk(c) => val[c] = Undefined

C3_Witness ==
    /\ Returned(Main, "getImage")
    /\ Len(log[Main]) = 4
    /\ \A i \in {1, 3, 4} : log[Main][i].sent /\ log[Main][i].outcome = "throw"
    /\ val[Main] = Undefined
    /\ ~thrown[Main]

\* The last position of layers whose archive holds path f (0 when none does).
LastLayerWith(c, layers, f) ==
    LET K == {k \in 1..Len(layers) : f \in layerFiles[c][layers[k]]}
    IN IF K = {} THEN 0 ELSE CHOOSE k \in K : \A j \in K : j <= k

\* C4: the layers of the last descriptor are extracted one at a time in the
\* listed order (a layer starts only when all before it have completed), and
\* when all have completed every path holds the content of the last listed
\* layer that contains it.
C4_LayersInOrder ==
    \A c \in Calls :
        (manifest[c].state = "ok" /\ manifest[c].descs # <<>>) =>
            LET layers == LayersOf(manifest[c])
            IN /\ Len(started[c]) <= Len(layers)
               /\ \A k \in 1..Len(started[c]) : started[c][k] = layers[k]
               /\ Len(started[c]) <= completed[c] + 1
               /\ completed[c] <= Len(started[c])
               /\ completed[c] = Len(layers) =>
                    \A f \in Paths :
                        LastLayerWith(c, layers, f) # 0 =>
                            tree[c][f] = layers[LastLayerWith(c, layers, f)]

C4_Witness ==
    /\ val[Main] = "exportData"
    /\ manifest[Main].state = "ok"
    /\ LET layers == LayersOf(manifest[Main])
       IN /\ Len(layers) = 2
          /\ layers[1] # layers[2]
          /\ completed[Main] = 2
          /\ \E f \in Paths :
                /\ f \in layerFiles[Main][layers[1]]
                /\ f \in layerFiles[Main][layers[2]]
                /\ tree[Main][f] = layers[2]

\* C5: when the outer archive has been extracted and left no manifest.json,
\* exportImage has returned undefined and no layer extraction was started.
C5_NoManifestNoLayers ==
    \A c \in Calls :
        (outer[c] = "extracted" /\ manifest[c].state = "absent") =>
            /\ started[c] = <<>>
            /\ completed[c] = 0
            /\ Done(c)
            /\ val[c] = Undefined
            /\ ~thrown[c]

C5_Witness ==
    /\ outer[Main] = "extracted"
    /\ manifest[Main].state = "absent"
    /\ Done(Main)
    /\ val[Main] = Undefined

\* C6: while getImage has given exportImage no inspect data, no directory is
\* created, no export is requested and no layer is extracted; and once
\* getImage is over, exportImage has returned undefined.
C6_NoDataNoExport ==
    \A c \in Calls :
        (Runs(c, "exportImage") /\ ~InspectOk(c)) =>
            /\ dirs[c] = {}
            /\ outer[c] = "none"
            /\ started[c] = <<>>
            /\ Len(stack[c]) = 1 =>
                  (Done(c) /\ val[c] = Undefined /\ ~thrown[c])

C6_Witness ==
    /\ Runs(Main, "exportImage")
    /\ Done(Main)
    /\ log[Main][1].outcome = "throw"
    /\ ~InspectOk(Main)
    /\ val[Main] = Undefined
    /\ dirs[Main] = {}

\* C7 as stated: once dockerConn holds a client, no step replaces it.
C7_SetOnce == [][dockerConn # Unset => dockerConn' = dockerConn]_vars

\* C8 as stated: after a probe has failed with an error other than
\* ECONNREFUSED, no call issues another probe.
C8_SingleAttempt == reprobes = {}

\* C8 as amended: a failed probe memoizes nothing.  Every call that enters
\* getConnection while the connection is unset (and the options can be
\* built) issues a probe of its own; a probe that fails leaves dockerConn
\* as it is, and one that succeeds sets it and returns it.
C8_ProbedOnEveryCall ==
    [][\A c \in Calls :
          /\ ( /\ pc[c] = "idle"
               /\ pc'[c] # "idle"
               /\ dockerConn = Unset
               /\ certsReadable ) =>
                 (pc'[c] = "ping" /\ pings'[c] = pings[c] + 1)
          /\ (pc[c] = "ping" /\ pc'[c] # "ping") =>
                 IF lastPing'[c] = "ok"
                 THEN dockerConn' # Unset /\ client'[c] = dockerConn'
                 ELSE dockerConn' = dockerConn /\ client'[c] = dockerConn
      ]_vars

C8_Witness ==
    \E c \in reprobes :
        /\ lastPing[c] = "ok"
        /\ dockerConn = NewClient(c, opts[c])
        /\ client[c] = dockerConn

\* C9: a makeRequest whose probe failed and whose getConnection returned no
\* client has returned undefined, without throwing and without sending its
\* request, whatever the path and the method.
C9_NoConnectionNoRequest ==
    \A c \in Calls :
        ( /\ Runs(c, "makeRequest")
          /\ Len(stack[c]) = 1
          /\ lastPing[c] \in PingFailures
          /\ client[c] = Unset ) =>
            /\ pc[c] = "ret"
            /\ val[c] = Undefined
            /\ ~thrown[c]
            /\ ~log[c][1].sent
            /\ log[c][1].outcome = "undefined"

C9_Witness ==
    \E c \in Calls :
        /\ Runs(c, "makeRequest")
        /\ Done(c)
        /\ lastPing[c] = "other"
        /\ client[c] = Unset
        /\ log[c][1].method = "POST"
        /\ val[c] = Undefined

\* C10 as stated: once getImage has given inspect data, exportImage does not
\* throw: it returns undefined or the export data.
C10_ExportNeverRaises ==
    \A c \in Calls :
        (Runs(c, "exportImage") /\ Done(c) /\ InspectOk(c)) =>
            (~thrown[c] /\ val[c] \in {Undefined, "exportData"})

\* The layers of sequence s, as a set.
Range(s) == {s[k] : k \in 1..Len(s)}

\* C11: with more than one descriptor in manifest.json, the layers whose
\* extraction starts are those of the last descriptor, in its order, so no
\* layer listed only by an earlier descriptor is extracted; and when these
\* extractions have completed and the last layer's config is complete, the
\* call has returned the export data.
C11_LastDescriptorOnly ==
    \A c \in Calls :
        (manifest[c].state = "ok" /\ Len(manifest[c].descs) > 1) =>
            LET last == manifest[c].descs[Len(manifest[c].descs)]
            IN /\ Len(started[c]) <= Len(last)
               /\ \A k \in 1..Len(started[c]) : started[c][k] = last[k]
               /\ \A d \in 1..(Len(manifest[c].descs) - 1) :
                    \A l \in Range(manifest[c].descs[d]) \ Range(last) :
                        l \notin Range(started[c])
               /\ (last # <<>> /\ completed[c] = Len(last)) =>
                        started[c] = last
               /\ config[c] = "ok" =>
                    /\ started[c] = last
                    /\ completed[c] = Len(last)
                    /\ Done(c)
                    /\ val[c] = "exportData"
                    /\ ~thrown[c]

C11_Witness ==
    /\ Done(Main)
    /\ val[Main] = "exportData"
    /\ Len(manifest[Main].descs) = 2
    /\ Range(manifest[Main].descs[1]) \ Range(manifest[Main].descs[2]) # {}
    /\ started[Main] = manifest[Main].descs[2]
    /\ completed[Main] = Len(started[Main])

\* C12 as stated: when exportImage has found no json file for the last
\* layer, it has returned the export data (built on an empty configuration),
\* without throwing.
C12_AbsentConfigExports ==
    \A c \in Calls :
        (Runs(c, "exportImage") /\ config[c] = "absent") =>
            (Done(c) /\ val[c] = "exportData" /\ ~thrown[c])

\* The roots of knownSysPaths that every call lists: the fixed ones.
FixedRoots == {Dir(SysPaths[i], "", FALSE) : i \in 1..Len(SysPaths)}

\* C13 as stated: every getPkgPathList call, whatever the lastLayerConfig of
\* its export data and whatever its searches find or fail on, has returned a
\* list of at least 14 paths that holds the working-directory root and each
\* of the 13 fixed roots.
C13_AllRootsListed ==
    \A c \in Calls :
        Runs(c, "getPkgPathList") =>
            /\ Done(c)
            /\ ~thrown[c]
            /\ Len(val[c]) >= Len(SysPaths) + 1
            /\ FixedRoots \subseteq Range(val[c])

\* The marker directories of d beneath wpath named n, as glob lists them when
\* it looks into dot-directories only if h is set.
Matching(c, wpath, n, h) ==
    IF <<wpath, n>> \in globFails[c] THEN <<>>
    ELSE SelectSeq(GlobOrder,
                   LAMBDA d : /\ d \in explodedDirs[c]
                              /\ d.name = n
                              /\ (wpath = "" \/ d.at = wpath)
                              /\ (h \/ ~d.hidden))

\* The part of the path list that root wpath accounts for.
ExpectedAt(c, wpath) ==
    <<[at |-> wpath, name |-> "", hidden |-> FALSE]>>
    \o Matching(c, wpath, "site-packages", FALSE)
    \o Matching(c, wpath, "gems", FALSE)
    \o Matching(c, wpath, ".cargo", TRUE)
    \o Matching(c, wpath, ".composer", TRUE)

\* The joined working directory of call c's export data.
JoinedWorkingDir(c) ==
    LET w == exportData[c].lastLayerConfig.config.WorkingDir
    IN IF w = "app" THEN "/app" ELSE w

\* C17: the list a getPkgPathList call returns is, for the working directory
\* and then the 13 fixed roots in the order of the code, the root followed by
\* its site-packages, gems, .cargo and .composer matches, all concatenated
\* with nothing left out: a directory that lies under two roots, or a working
\* directory that is also a fixed root, is listed once for each.
C17_ConcatenatedInOrder ==
    \A c \in Calls :
        (Runs(c, "getPkgPathList") /\ ~thrown[c]) =>
            val[c] =
                ExpectedAt(c, JoinedWorkingDir(c))
                \o ExpectedAt(c, "/usr/lib") \o ExpectedAt(c, "/usr/lib64")
                \o ExpectedAt(c, "/usr/local/lib")
                \o ExpectedAt(c, "/usr/local/lib64")
                \o ExpectedAt(c, "/opt") \o ExpectedAt(c, "/home")
                \o ExpectedAt(c, "/usr/share") \o ExpectedAt(c, "/var/www/html")
                \o ExpectedAt(c, "/var/lib") \o ExpectedAt(c, "/mnt")
                \o ExpectedAt(c, "/app") \o ExpectedAt(c, "/data")
                \o ExpectedAt(c, "/srv")

\* How many times path p is listed in list l.
Occurrences(l, p) == Cardinality({i \in 1..Len(l) : l[i] = p})

C17_Witness ==
    /\ Runs(Main, "getPkgPathList")
    /\ ~thrown[Main]
    /\ exportData[Main].lastLayerConfig.config.WorkingDir = "app"
    /\ Occurrences(val[Main], [at |-> "/app", name |-> "", hidden |-> FALSE]) = 2
    /\ Occurrences(val[Main], [at |-> "/app", name |-> "gems", hidden |-> FALSE]) = 2
    /\ Occurrences(val[Main], [at |-> "/app", name |-> ".cargo", hidden |-> FALSE]) = 0
    /\ <<"/app", ".cargo">> \in globFails[Main]
    /\ [at |-> "/app", name |-> ".cargo", hidden |-> FALSE] \in explodedDirs[Main]

\* Re-parsing repo r gives r back as repo and nothing else.
Reparsed(r) ==
    parseImageName(r) = [registry |-> <<>>, repo |-> r, tag |-> <<>>, digest |-> <<>>]

\* C14 as stated: for every string, parsing the repo of its parse gives that
\* repo again, with registry, tag and digest empty.
C14_IdempotentOnRepo ==
    \A c \in Calls : Runs(c, "parseImageName") => Reparsed(val[c].repo)

\* Repo r has no ':' and no '@', and no '.' before its first '/' if it has
\* one.
PlainRepo(r) ==
    /\ \A i \in 1..Len(r) : r[i] \notin {":", "@"}
    /\ (\E i \in 1..Len(r) : r[i] = "/") =>
          \A i \in 1..Len(r) :
              r[i] = "." => \E j \in 1..(i - 1) : r[j] = "/"

\* C14 as amended: parsing the repo of a parse gives that repo again, with
\* registry, tag and digest empty, whenever that repo has no ':' and no '@',
\* and no '.' in its first segment if it has several.
C14_IdempotentOnPlainRepo ==
    \A c \in Calls :
        (Runs(c, "parseImageName") /\ PlainRepo(val[c].repo)) =>
            Reparsed(val[c].repo)

C14_Witness ==
    /\ Runs(Main, "parseImageName")
    /\ val[Main].registry # <<>>
    /\ val[Main].tag # <<>>
    /\ val[Main].digest # <<>>
    /\ \E i \in 1..Len(val[Main].repo) : val[Main].repo[i] = "/"
    /\ \E i \in 1..Len(val[Main].repo) : val[Main].repo[i] = "."
    /\ PlainRepo(val[Main].repo)
    /\ Reparsed(val[Main].repo)

\* String s has none of the characters cs.
Free(s, cs) == \A i \in 1..Len(s) : s[i] \notin cs

\* The part of repo before its first '/' (all of it without one).
FirstSegment(repo) ==
    IF \E i \in 1..Len(repo) : repo[i] = "/"
    THEN SubSeq(repo, 1, (CHOOSE i \in 1..Len(repo) :
                            /\ repo[i] = "/"
                            /\ \A j \in 1..(i - 1) : repo[j] # "/") - 1)
    ELSE repo

\* The digest mark "@sha256:" stands at position k of s.
MarkAt(s, k) ==
    /\ k + 7 <= Len(s)
    /\ <<s[k], s[k + 1], s[k + 2], s[k + 3], s[k + 4], s[k + 5], s[k + 6], s[k + 7]>>
          = <<"@", "s", "h", "a", "2", "5", "6", ":">>

\* The components of s when its registry ends before position i (0: no
\* registry), its tag starts after position j and its digest mark stands at
\* position k (j = k: no tag; k past the end: no digest).
Cut(s, i, j, k) ==
    [registry |-> SubSeq(s, 1, i - 1),
     repo     |-> SubSeq(s, i + 1, j - 1),
     tag      |-> SubSeq(s, j + 1, k - 1),
     digest   |-> SubSeq(s, k + 8, Len(s))]

\* Positions i, j, k cut s as registry/repo:tag@sha256:digest, with a
\* registry (one segment) that has a dot or a colon, a repo whose first
\* segment has neither, and a repo, tag and digest without ':' and '@'.
HasShapeAsStated(s, i, j, k) ==
    /\ i < j /\ j <= k
    /\ i > 0 => (s[i] = "/" /\ ~Free(Cut(s, i, j, k).registry, {".", ":"})
                            /\ Free(Cut(s, i, j, k).registry, {"/"}))
    /\ j < k => s[j] = ":"
    /\ k <= Len(s) => MarkAt(s, k)
    /\ Free(FirstSegment(Cut(s, i, j, k).repo), {".", ":"})
    /\ Free(Cut(s, i, j, k).repo, {":", "@"})
    /\ Free(Cut(s, i, j, k).tag, {":", "@"})
    /\ Free(Cut(s, i, j, k).digest, {":", "@"})

\* C15 as stated: a name of the shape [registry/]repo[:tag][@sha256:digest],
\* with a registry that has a dot or a colon, a repo whose first segment has
\* neither, and a repo, tag and digest without ':' and '@', is parsed into
\* exactly these components, the absent ones empty.
C15_ShapeIsParsed ==
    \A c \in Calls :
        Runs(c, "parseImageName") =>
            LET s == fullName[c]
            IN \A i \in 0..Len(s), j, k \in 1..(Len(s) + 1) :
                  HasShapeAsStated(s, i, j, k) => val[c] = Cut(s, i, j, k)

\* The same, where moreover '/' only separates the registry and the segments
\* of the repo: the tag and the digest have none, and the repo does not start
\* with one.
HasShape(s, i, j, k) ==
    /\ HasShapeAsStated(s, i, j, k)
    /\ i + 1 < j => s[i + 1] # "/"
    /\ Free(Cut(s, i, j, k).tag, {"/"})
    /\ Free(Cut(s, i, j, k).digest, {"/"})

\* C15 as amended: a name of that shape whose tag and digest also have no
\* '/' and whose repo does not start with '/' is parsed into exactly its
\* components, the absent ones empty.
C15_SegmentedShapeIsParsed ==
    \A c \in Calls :
        Runs(c, "parseImageName") =>
            LET s == fullName[c]
            IN \A i \in 0..Len(s), j, k \in 1..(Len(s) + 1) :
                  HasShape(s, i, j, k) => val[c] = Cut(s, i, j, k)

C15_Witness ==
    /\ Runs(Main, "parseImageName")
    /\ fullName[Main] = <<"r", ".", "i", ":", "5", "/", "a", "-", "b", "/", "c", ".", "d",
                          ":", "1", ".", "0", "@", "s", "h", "a", "2", "5", "6", ":", "d">>
    /\ val[Main] = [registry |-> <<"r", ".", "i", ":", "5">>,
                    repo |-> <<"a", "-", "b", "/", "c", ".", "d">>,
                    tag |-> <<"1", ".", "0">>,
                    digest |-> <<"d">>]

\* The last position of a colon in w (0 without one).
LastColon(w) ==
    IF Free(w, {":"}) THEN 0
    ELSE CHOOSE i \in 1..Len(w) :
            w[i] = ":" /\ \A j \in (i + 1)..Len(w) : w[j] # ":"

\* C18 as stated: when the name left by the registry and digest steps still
\* has a colon, the tag is what follows its last colon and the repo is what
\* precedes that colon, for every input.
C18_TrailingTagRemoved ==
    \A c \in Calls :
        (Runs(c, "parseImageName") /\ fullName[c] # <<>>) =>
            LET w == AfterDigest(AfterRegistry(fullName[c]))
            IN ~Free(w, {":"}) =>
                  /\ val[c].tag = SubSeq(w, LastColon(w) + 1, Len(w))
                  /\ val[c].repo = SubSeq(w, 1, LastColon(w) - 1)

\* The requests a getImage(name) call may issue, in order; the full
\* reference is the name with ":latest" appended when it parses to neither a
\* tag nor a digest.
Protocol(name) ==
    LET n == parseImageName(name)
        full == IF n.tag = <<>> /\ n.digest = <<>>
                THEN name \o <<":", "l", "a", "t", "e", "s", "t">>
                ELSE name
    IN << [kind |-> "inspect", ref |-> n.repo, method |-> "GET"],
          [kind |-> "pull", ref |-> full, method |-> "POST"],
          [kind |-> "inspect", ref |-> n.repo, method |-> "GET"],
          [kind |-> "inspect", ref |-> full, method |-> "GET"] >>

\* C16: the requests of a getImage call are, at every moment, the first ones
\* of: inspect of the repo, pull of the full reference, inspect of the repo,
\* inspect of the full reference.  No request follows an inspect that
\* returned, the inspect of the full reference is only issued after a pull
\* that returned and a second inspect that threw, and the full reference is
\* the name given, with ":latest" appended exactly when it parses to neither a
\* tag nor a digest.
C16_RequestsFollowProtocol ==
    \A c \in Calls :
        Runs(c, "getImage") =>
            LET expected == Protocol(fullName[c])
            IN /\ Len(log[c]) <= 4
               /\ \A i \in 1..Len(log[c]) :
                     /\ log[c][i].kind = expected[i].kind
                     /\ log[c][i].ref = expected[i].ref
                     /\ log[c][i].method = expected[i].method
                     /\ i < Len(log[c]) => log[c][i].outcome # "pending"
                     /\ ( /\ log[c][i].kind = "inspect"
                          /\ log[c][i].outcome \in {"ok", "undefined"} ) =>
                             Len(log[c]) = i
               /\ Len(log[c]) >= 2 => log[c][1].outcome = "throw"
               /\ Len(log[c]) = 4 =>
                     /\ log[c][2].outcome \in {"ok", "undefined"}
                     /\ log[c][3].outcome = "throw"

C16_Witness ==
    /\ Returned(Main, "getImage")
    /\ fullName[Main] = <<"a">>
    /\ Len(log[Main]) = 4
    /\ log[Main][2].ref = <<"a", ":", "l", "a", "t", "e", "s", "t">>
    /\ log[Main][4].ref = <<"a", ":", "l", "a", "t", "e", "s", "t">>
    /\ log[Main][4].outcome = "ok"
    /\ val[Main] = "json"

\* C19: when the first inspect of a getImage call found no connection (its
\* makeRequest returned undefined), the call issues no other request, no
\* pull in particular, has sent nothing and probed once, and returns
\* undefined without throwing.
C19_NoFallbackWithoutConnection ==
    \A c \in Calls :
        ( /\ Runs(c, "getImage")
          /\ log[c][1].outcome = "undefined" ) =>
            /\ Len(log[c]) = 1
            /\ ~log[c][1].sent
            /\ pings[c] = 1
            /\ lastPing[c] \in PingFailures
            /\ client[c] = Unset
            /\ pc[c] = "ret"
            /\ Returned(c, "getImage") => (val[c] = Undefined /\ ~thrown[c])

C19_Witness ==
    /\ Runs(Main, "getImage")
    /\ Done(Main)
    /\ lastPing[Main] = "ECONNREFUSED"
    /\ log[Main][1].outcome = "undefined"
    /\ Len(log[Main]) = 1
    /\ val[Main] = Undefined

\* C20: once an inspect of a getImage (alone or inside exportImage) has been
\* answered, dockerConn is set, in that state and in every later one; and an
\* exportImage that has got inspect data and then its client has not got the
\* unset value, so it requests the export.
C20_ClientSetAfterInspect ==
    \A c \in Calls :
        InspectOk(c) =>
            /\ dockerConn # Unset
            /\ ( /\ Runs(c, "exportImage")
                 /\ "allLayersExplodedDir" \in dirs[c] ) =>
                    /\ client[c] # Unset
                    /\ outer[c] # "none"

C20_Witness ==
    \E c, d \in Calls :
        /\ c # d
        /\ Runs(c, "exportImage")
        /\ outer[c] = "streaming"
        /\ client[c] # Unset
        /\ pings[c] = 1
        /\ lastPing[c] \in PingFailures
        /\ Runs(d, "getConnection")
        /\ dockerConn = NewClient(d, opts[d])

====
